---- MODULE Spec2Model ----
(***************************************************************************)
(* Model of scripts/render_ome_config.py (the Server.xml renderer) and of  *)
(* scripts/test-quickstart-env.py (the env-defaults consistency check).    *)
(*                                                                         *)
(* A document is a sequence of tokens.  A token is a string: a whole tag   *)
(* ("<Bind>", "</Bind>", "<Server version=\"8\">"), one whitespace         *)
(* character (" ", "\n", "\r"), or text holding neither '<' nor '>'.       *)
(* The concatenation of the tokens is the text the Python code works on;   *)
(* str.find, "in" and the regular expressions of the source are modelled   *)
(* on the token sequence, which is exact as long as every tag is one token *)
(* and text tokens hold no '<' (the templates drawn in Init are such).     *)
(* Positions are 1-based; 0 stands for Python's -1 ("not found").          *)
(***************************************************************************)
EXTENDS Integers, Sequences, FiniteSets, TLC

VARIABLES
    pc,          \* position of the renderer: main, then the steps of render()
    args,        \* the command line: template text and operator-supplied values
    text,        \* render(): local variable text
    prev,        \* text as it was before the last step of render() (history)
    server_ip,   \* main(): server_ip (defaults to --bind)
    include,     \* main(): include_managers_authentication
    api_token,   \* main(): api_token handed to render()
    output,      \* the output file: None until output.write_text(text)
    err,         \* message of the SystemExit that aborted the run, "" if none
    env,         \* test-quickstart-env.py: inputs and results of diff_values/main
    blk          \* test-quickstart-env.py: inputs and result of _extract_block

vars == <<pc, args, text, prev, server_ip, include, api_token, output, err, env, blk>>

renderVars == <<pc, args, text, prev, server_ip, include, api_token, output, err>>

-----------------------------------------------------------------------------
(* Bounds of the model.                                                    *)

\* Largest number of whitespace tokens between two sections of a template.
MaxPad == 2

\* Largest number of <AccessTokens> blocks, and of <Authentication> blocks.
MaxBlocks == 2

\* Largest number of lines handed to _extract_block.
MaxLines == 3

\* Largest number of required keys handed to diff_values.
MaxKeys == 3

-----------------------------------------------------------------------------
(* Python values.                                                          *)

None == [has |-> FALSE, v |-> <<>>]

Some(x) == [has |-> TRUE, v |-> x]

\* The outcome of a function that may raise SystemExit.
Ok(t) == [ok |-> TRUE, text |-> t, err |-> ""]

Fail(msg) == [ok |-> FALSE, text |-> <<>>, err |-> msg]

Open(tag) == "<" \o tag \o ">"

Close(tag) == "</" \o tag \o ">"

\* The root element as the shipped template spells it, with an attribute.
ServerOpenAttr == "<Server version=\"8\">"

TagNames ==
    { "Server", "Server.bind", "Bind", "Address", "IP", "Port", "TLSPort",
      "Signalling", "Providers", "Modules", "Control", "VirtualHosts",
      "VirtualHost", "Managers", "ID", "Password", "AccessTokens",
      "AccessToken", "Authentication", "Name" }

\* Tokens that are tags.
TagTokens ==
    {Open(t) : t \in TagNames} \cup {Close(t) : t \in TagNames}
        \cup {ServerOpenAttr, "< Server.bind >", "</ Server.bind >"}

\* Whether the token holds the character '<' (regex class [^<] excludes it).
ContainsLt(tok) == tok \in TagTokens \cup {"<"}

\* The characters of str.isspace, which are also those of the regex class \s
\* of a str pattern: tab, line feed, vertical tab, form feed, carriage return,
\* U+001C to U+001F, space, U+0085, U+00A0 and U+1680.  The other members of
\* the class (U+2000 to U+200A, U+2028, U+2029, U+202F, U+205F, U+3000) cannot
\* be written in a string of this language; no document here holds them.
WhitespaceChars ==
    { "\t", "\n", "", "\f", "\r", "", "", "", "", " ",
      "", " ", " " }

\* Python str.isspace on a one-character token; regex class \s.
IsSpace(tok) == tok \in WhitespaceChars

\* Tokens matched by the regex <Server[^>]*> .
IsServerOpen(tok) == tok \in {Open("Server"), ServerOpenAttr, Open("Server.bind")}

\* data.find(tok, from): the first position >= from holding tok, 0 if none.
Find(data, tok, from) ==
    IF \E i \in from..Len(data) : data[i] = tok
    THEN CHOOSE i \in from..Len(data) :
            data[i] = tok /\ \A j \in from..(i - 1) : data[j] # tok
    ELSE 0

\* data.rfind(tok, 0, end): the last position <= upto holding tok, 0 if none.
RFind(data, tok, upto) ==
    IF \E i \in 1..upto : data[i] = tok
    THEN CHOOSE i \in 1..upto :
            data[i] = tok /\ \A j \in (i + 1)..upto : data[j] # tok
    ELSE 0

\* tok in data
Contains(data, tok) == \E i \in 1..Len(data) : data[i] = tok

\* data[a:b] with 1-based inclusive bounds.
Slice(data, a, b) == SubSeq(data, a, b)

\* data[a:] with a 1-based.
From(data, a) == SubSeq(data, a, Len(data))

-----------------------------------------------------------------------------
(* render_ome_config.py: the tag helpers.                                  *)

\* Mutant: the slice after the value starts one token late and loses the
\* closing tag.
replace_tag_content_drops_close(data, tag, value) ==
    LET start == Find(data, Open(tag), 1)
    IN  IF start = 0
        THEN Fail("missing " \o Open(tag) \o " in template")
        ELSE LET end == Find(data, Close(tag), start)
             IN  IF end = 0
                 THEN Fail("missing " \o Close(tag) \o " in template")
                 ELSE Ok(Slice(data, 1, start) \o value \o From(data, end + 1))

\* Mutant: a missing tag is skipped instead of raising SystemExit.
replace_tag_content_lenient(data, tag, value) ==
    LET start == Find(data, Open(tag), 1)
        end   == IF start = 0 THEN 0 ELSE Find(data, Close(tag), start)
    IN  IF start = 0 \/ end = 0
        THEN Ok(data)
        ELSE Ok(Slice(data, 1, start) \o value \o From(data, end))

replace_tag_content(data, tag, value) ==
    LET start == Find(data, Open(tag), 1)
    IN  IF start = 0
        THEN Fail("missing " \o Open(tag) \o " in template")
        ELSE LET end == Find(data, Close(tag), start)
             IN  IF end = 0
                 THEN Fail("missing " \o Close(tag) \o " in template")
                 ELSE Ok(Slice(data, 1, start) \o value \o From(data, end))

replace_optional_tag_content(data, tag, value) ==
    IF ~Contains(data, Open(tag))
    THEN Ok(data)
    ELSE replace_tag_content(data, tag, value)

\* Start of the run of whitespace that ends just before position i.
RECURSIVE SpaceRunStart(_, _)
SpaceRunStart(data, i) ==
    IF i > 1 /\ IsSpace(data[i - 1]) THEN SpaceRunStart(data, i - 1) ELSE i

\* End of the run of whitespace that begins just after position j.
RECURSIVE SpaceRunEnd(_, _)
SpaceRunEnd(data, j) ==
    IF j < Len(data) /\ IsSpace(data[j + 1]) THEN SpaceRunEnd(data, j + 1) ELSE j

\* re.sub(r"\s*<tag>.*?</tag>\s*", "\n", data, count=1)
remove_first_tag_block(data, tag) ==
    LET start == Find(data, Open(tag), 1)
        end   == IF start = 0 THEN 0 ELSE Find(data, Close(tag), start)
    IN  IF start = 0 \/ end = 0
        THEN data
        ELSE Slice(data, 1, SpaceRunStart(data, start) - 1)
                \o <<"\n">>
                \o From(data, SpaceRunEnd(data, end) + 1)

\* Position of the first token after i that holds '<', 0 if none.
NextLt(data, i) ==
    IF \E j \in (i + 1)..Len(data) : ContainsLt(data[j])
    THEN CHOOSE j \in (i + 1)..Len(data) :
            ContainsLt(data[j]) /\ \A k \in (i + 1)..(j - 1) : ~ContainsLt(data[k])
    ELSE 0

\* pattern.subn over (<tag>)([^<]*)(</tag>), scanning from position i:
\* the rewritten tail and the number of matches in it.
RECURSIVE subn_tag(_, _, _, _)
subn_tag(data, tag, value, i) ==
    IF i > Len(data)
    THEN [text |-> <<>>, count |-> 0]
    ELSE LET j == IF data[i] = Open(tag) THEN NextLt(data, i) ELSE 0
         IN  IF j # 0 /\ data[j] = Close(tag)
             THEN LET rest == subn_tag(data, tag, value, j + 1)
                  IN  [text  |-> <<Open(tag)>> \o value \o <<Close(tag)>> \o rest.text,
                       count |-> rest.count + 1]
             ELSE LET rest == subn_tag(data, tag, value, i + 1)
                  IN  [text |-> <<data[i]>> \o rest.text, count |-> rest.count]

replace_all_tag_content(data, tag, value, required) ==
    LET r == subn_tag(data, tag, value, 1)
    IN  IF r.count = 0 /\ required
        THEN Fail("missing " \o Open(tag) \o " in template")
        ELSE Ok(r.text)

\* xml.sax.saxutils.escape with the two quote entities, one character.
EscapeChar(c) ==
    CASE c = "&"  -> "&amp;"
      [] c = "<"  -> "&lt;"
      [] c = ">"  -> "&gt;"
      [] c = "'"  -> "&apos;"
      [] c = "\"" -> "&quot;"
      [] OTHER    -> c

\* Mutant: escape() called without the two quote entities.
xml_escape_no_quotes(value) ==
    [i \in 1..Len(value) |->
        IF value[i] \in {"'", "\""} THEN value[i] ELSE EscapeChar(value[i])]

xml_escape(value) == [i \in 1..Len(value) |-> EscapeChar(value[i])]

-----------------------------------------------------------------------------
(* render_ome_config.py: _managers_authentication_supported.               *)
(* An image tag is a sequence of one-character tokens.                     *)

\* The decimal digits of the regex class \d of a str pattern (Unicode category
\* Nd), one row per script, each in the order of the values 0 to 9: ASCII,
\* Extended Arabic-Indic, NKo, Bengali, Gujarati, Tamil, Kannada, Sinhala
\* Lith, Lao, Myanmar Shan, Khmer, New Tai Lue, Tai Tham Hora, Tai Tham Tham,
\* Sundanese, Saurashtra, Javanese, Myanmar Tai Laing, Meetei Mayek.  The
\* digits of the other scripts of the category (Arabic-Indic, Devanagari,
\* fullwidth and others) cannot be written in a string of this language; no
\* image tag here holds them.
DigitRows ==
    {
      <<"0", "1", "2", "3", "4", "5", "6", "7", "8", "9">>,
      <<"۰", "۱", "۲", "۳", "۴", "۵", "۶", "۷", "۸", "۹">>,
      <<"߀", "߁", "߂", "߃", "߄", "߅", "߆", "߇", "߈", "߉">>,
      <<"০", "১", "২", "৩", "৪", "৫", "৬", "৭", "৮", "৯">>,
      <<"૦", "૧", "૨", "૩", "૪", "૫", "૬", "૭", "૮", "૯">>,
      <<"௦", "௧", "௨", "௩", "௪", "௫", "௬", "௭", "௮", "௯">>,
      <<"೦", "೧", "೨", "೩", "೪", "೫", "೬", "೭", "೮", "೯">>,
      <<"෦", "෧", "෨", "෩", "෪", "෫", "෬", "෭", "෮", "෯">>,
      <<"໐", "໑", "໒", "໓", "໔", "໕", "໖", "໗", "໘", "໙">>,
      <<"႐", "႑", "႒", "႓", "႔", "႕", "႖", "႗", "႘", "႙">>,
      <<"០", "១", "២", "៣", "៤", "៥", "៦", "៧", "៨", "៩">>,
      <<"᧐", "᧑", "᧒", "᧓", "᧔", "᧕", "᧖", "᧗", "᧘", "᧙">>,
      <<"᪀", "᪁", "᪂", "᪃", "᪄", "᪅", "᪆", "᪇", "᪈", "᪉">>,
      <<"᪐", "᪑", "᪒", "᪓", "᪔", "᪕", "᪖", "᪗", "᪘", "᪙">>,
      <<"᮰", "᮱", "᮲", "᮳", "᮴", "᮵", "᮶", "᮷", "᮸", "᮹">>,
      <<"꣐", "꣑", "꣒", "꣓", "꣔", "꣕", "꣖", "꣗", "꣘", "꣙">>,
      <<"꧐", "꧑", "꧒", "꧓", "꧔", "꧕", "꧖", "꧗", "꧘", "꧙">>,
      <<"꧰", "꧱", "꧲", "꧳", "꧴", "꧵", "꧶", "꧷", "꧸", "꧹">>,
      <<"꯰", "꯱", "꯲", "꯳", "꯴", "꯵", "꯶", "꯷", "꯸", "꯹">> }

\* The characters matched by \d.
Digits == UNION {{row[i] : i \in 1..10} : row \in DigitRows}

\* int() of one digit: its value, which is its place in its row.
DigitVal(c) ==
    LET row == CHOOSE r \in DigitRows : \E i \in 1..10 : r[i] = c
    IN  (CHOOSE i \in 1..10 : row[i] = c) - 1

\* Position after the longest run of digits starting at p (regex \d+, greedy).
RECURSIVE DigitRunEnd(_, _)
DigitRunEnd(s, p) ==
    IF p <= Len(s) /\ s[p] \in Digits THEN DigitRunEnd(s, p + 1) ELSE p

\* int() of the digits s[a..b-1].
RECURSIVE ToInt(_, _, _)
ToInt(s, a, b) ==
    IF b <= a THEN 0 ELSE ToInt(s, a, b - 1) * 10 + DigitVal(s[b - 1])

\* re.match(r"^v?(?P<major>\d+)\.(?P<minor>\d+)\.(?P<patch>\d+)", image_tag):
\* None, or the groups major and minor as integers.
SemverMatch(s) ==
    LET p0 == IF Len(s) >= 1 /\ s[1] = "v" THEN 2 ELSE 1
        p1 == DigitRunEnd(s, p0)
        q0 == p1 + 1
        q1 == DigitRunEnd(s, q0)
        r0 == q1 + 1
        r1 == DigitRunEnd(s, r0)
    IN  IF /\ p1 > p0 /\ p1 <= Len(s) /\ s[p1] = "."
           /\ q1 > q0 /\ q1 <= Len(s) /\ s[q1] = "."
           /\ r1 > r0
        THEN Some([major |-> ToInt(s, p0, p1), minor |-> ToInt(s, q0, q1)])
        ELSE None

\* Mutant: the threshold is one minor version too low.
_managers_authentication_supported_from_015(image_tag) ==
    IF ~image_tag.has
    THEN TRUE
    ELSE LET match == SemverMatch(image_tag.v)
         IN  IF ~match.has
             THEN FALSE
             ELSE ~(match.v.major = 0 /\ match.v.minor < 15)

_managers_authentication_supported(image_tag) ==
    IF ~image_tag.has
    THEN TRUE
    ELSE LET match == SemverMatch(image_tag.v)
         IN  IF ~match.has
             THEN FALSE
             ELSE IF match.v.major = 0 /\ match.v.minor < 16
                  THEN FALSE
                  ELSE TRUE

-----------------------------------------------------------------------------
(* render_ome_config.py: the rewrites of the root and Control sections.    *)

\* re.search(r"<Server[^>]*>(.*)</Server>", text, re.DOTALL): the positions
\* of the opening and closing token, [s |-> 0, e |-> 0] when there is no match.
ServerMatch(data) ==
    LET s == IF \E i \in 1..Len(data) : IsServerOpen(data[i])
             THEN CHOOSE i \in 1..Len(data) :
                    IsServerOpen(data[i]) /\ \A j \in 1..(i - 1) : ~IsServerOpen(data[j])
             ELSE 0
        e == RFind(data, Close("Server"), Len(data))
    IN  IF s # 0 /\ e > s THEN [s |-> s, e |-> e] ELSE [s |-> 0, e |-> 0]

\* re.search(r"<tag>(.*?)</tag>", data, re.DOTALL) for a literal tag.
LazyMatch(data, tag) ==
    LET s == Find(data, Open(tag), 1)
        e == IF s = 0 THEN 0 ELSE Find(data, Close(tag), s)
    IN  IF s # 0 /\ e # 0 THEN [s |-> s, e |-> e] ELSE [s |-> 0, e |-> 0]

\* _rewrite_signalling, the callback of re.subn in _replace_root_bindings.
_rewrite_signalling(inner, port, tls_port) ==
    LET r1 == replace_tag_content(inner, "Port", port)
    IN  IF ~r1.ok
        THEN r1
        ELSE LET r2 == replace_tag_content(r1.text, "TLSPort", tls_port)
             IN  IF ~r2.ok
                 THEN r2
                 ELSE Ok(<<Open("Signalling")>> \o r2.text \o <<Close("Signalling")>>)

\* re.subn(r"<Signalling>(.*?)</Signalling>", _rewrite_signalling, bind_body):
\* every match left to right; the first callback that raises aborts.
RECURSIVE subn_signalling(_, _, _)
subn_signalling(body, port, tls_port) ==
    LET m == LazyMatch(body, "Signalling")
    IN  IF m.s = 0
        THEN [ok |-> TRUE, text |-> body, err |-> "", count |-> 0]
        ELSE LET r == _rewrite_signalling(Slice(body, m.s + 1, m.e - 1), port, tls_port)
             IN  IF ~r.ok
                 THEN [ok |-> FALSE, text |-> <<>>, err |-> r.err, count |-> 0]
                 ELSE LET rest == subn_signalling(From(body, m.e + 1), port, tls_port)
                      IN  IF ~rest.ok
                          THEN rest
                          ELSE [ok    |-> TRUE,
                                text  |-> Slice(body, 1, m.s - 1) \o r.text \o rest.text,
                                err   |-> "",
                                count |-> rest.count + 1]

\* Mutant: the legacy <IP> is tried before <Address>.
BindAddress_ip_first(bind_body, address) ==
    IF Contains(bind_body, Open("IP"))
    THEN replace_tag_content(bind_body, "IP", address)
    ELSE IF Contains(bind_body, Open("Address"))
         THEN replace_tag_content(bind_body, "Address", address)
         ELSE Ok(bind_body)

\* The address step of _replace_root_bindings: <Address> preferred, else <IP>.
BindAddress(bind_body, address) ==
    IF Contains(bind_body, Open("Address"))
    THEN replace_tag_content(bind_body, "Address", address)
    ELSE IF Contains(bind_body, Open("IP"))
         THEN replace_tag_content(bind_body, "IP", address)
         ELSE Ok(bind_body)

\* The port step of _replace_root_bindings.
BindPorts(bind_body, port, tls_port) ==
    LET sig == subn_signalling(bind_body, port, tls_port)
    IN  IF ~sig.ok
        THEN Fail(sig.err)
        ELSE IF sig.count # 0
             THEN Ok(sig.text)
             ELSE LET r1 == replace_tag_content(sig.text, "Port", port)
                  IN  IF ~r1.ok
                      THEN r1
                      ELSE replace_tag_content(r1.text, "TLSPort", tls_port)

_replace_root_bindings(data, address, port, tls_port) ==
    LET server_match == ServerMatch(data)
    IN  IF server_match.s = 0
        THEN Fail("missing <Server> root element in template")
        ELSE
        LET server_body == Slice(data, server_match.s + 1, server_match.e - 1)
            bind_match  == LazyMatch(server_body, "Bind")
        IN  IF bind_match.s = 0
            THEN Fail("missing <Bind> section under <Server> in template")
            ELSE
            LET bind_body == Slice(server_body, bind_match.s + 1, bind_match.e - 1)
                r1 == BindAddress(bind_body, address)
            IN  IF ~r1.ok
                THEN r1
                ELSE LET r2 == BindPorts(r1.text, port, tls_port)
                     IN  IF ~r2.ok
                         THEN r2
                         ELSE Ok(Slice(data, 1, server_match.s)
                                    \o Slice(server_body, 1, bind_match.s)
                                    \o r2.text
                                    \o From(server_body, bind_match.e)
                                    \o From(data, server_match.e))

\* The test of the loop of _replace_root_ip: the <IP> at position i of the
\* server body is skipped when the last <Bind> (or <VirtualHosts>) before it
\* is not followed by its closing tag before it.
SkippedIp(server_body, i) ==
    LET bind_open   == RFind(server_body, Open("Bind"), i)
        bind_close  == RFind(server_body, Close("Bind"), i)
        vhost_open  == RFind(server_body, Open("VirtualHosts"), i)
        vhost_close == RFind(server_body, Close("VirtualHosts"), i)
    IN  \/ bind_open # 0 /\ (bind_close = 0 \/ bind_close < bind_open)
        \/ vhost_open # 0 /\ (vhost_close = 0 \/ vhost_close < vhost_open)

\* The loop over re.finditer(r"<IP>(.*?)</IP>", server_body) from position
\* from on: the rewritten server body, or the body itself when no match is left.
RECURSIVE root_ip_loop(_, _, _)
root_ip_loop(server_body, ip, from) ==
    LET s == Find(server_body, Open("IP"), from)
        e == IF s = 0 THEN 0 ELSE Find(server_body, Close("IP"), s)
    IN  IF s = 0 \/ e = 0
        THEN server_body
        ELSE IF SkippedIp(server_body, s)
             THEN root_ip_loop(server_body, ip, e + 1)
             ELSE Slice(server_body, 1, s) \o ip \o From(server_body, e)

_replace_root_ip(data, ip) ==
    LET server_match == ServerMatch(data)
    IN  IF server_match.s = 0
        THEN Fail("missing <Server> root element in template")
        ELSE LET server_body == Slice(data, server_match.s + 1, server_match.e - 1)
             IN  Ok(Slice(data, 1, server_match.s)
                        \o root_ip_loop(server_body, ip, 1)
                        \o From(data, server_match.e))

\* The three optional rewrites of the Control server body, in source order.
ControlServerBody(server_body, bind) ==
    LET b1 == IF Contains(server_body, Open("Bind"))
              THEN replace_all_tag_content(server_body, "Bind", bind, FALSE).text
              ELSE server_body
        b2 == IF Contains(b1, Open("IP"))
              THEN replace_all_tag_content(b1, "IP", bind, FALSE).text
              ELSE b1
    IN  IF Contains(b2, Open("Address"))
        THEN replace_all_tag_content(b2, "Address", bind, FALSE).text
        ELSE b2

_scoped_replace_control_bindings(data, bind) ==
    LET control_match == LazyMatch(data, "Control")
    IN  IF control_match.s = 0
        THEN data
        ELSE
        LET control_body == Slice(data, control_match.s, control_match.e)
            server_match == LazyMatch(control_body, "Server")
        IN  IF server_match.s = 0
            THEN data
            ELSE Slice(data, 1, control_match.s - 1)
                    \o Slice(control_body, 1, server_match.s - 1)
                    \o ControlServerBody(
                          Slice(control_body, server_match.s, server_match.e), bind)
                    \o From(control_body, server_match.e + 1)
                    \o From(data, control_match.e + 1)

\* template.read_text(): the file is opened in text mode with universal
\* newlines, so "\r\n" and a lone "\r" are both read as "\n".
RECURSIVE read_text(_)
read_text(file) ==
    IF file = <<>>
    THEN <<>>
    ELSE IF Head(file) = "\r"
         THEN <<"\n">> \o read_text(IF Len(file) > 1 /\ file[2] = "\n"
                                    THEN Tail(Tail(file))
                                    ELSE Tail(file))
         ELSE <<Head(file)>> \o read_text(Tail(file))

\* re.sub(r"<\s*Server\.bind\s*>", "<Bind>", text) followed by
\* re.sub(r"</\s*Server\.bind\s*>", "</Bind>", text).
NormalizeToken(tok) ==
    IF tok \in {"<Server.bind>", "< Server.bind >"}
    THEN Open("Bind")
    ELSE IF tok \in {"</Server.bind>", "</ Server.bind >"}
         THEN Close("Bind")
         ELSE tok

NormalizeServerBind(data) == [i \in 1..Len(data) |-> NormalizeToken(data[i])]

-----------------------------------------------------------------------------
(* The templates and command lines the renderer is run on.                 *)

\* <tag>content</tag>
El(tag, content) == <<Open(tag)>> \o content \o <<Close(tag)>>

\* A line break followed by n - 1 spaces of indentation; nothing when n = 0.
Pad(n) == [i \in 1..n |-> IF i = 1 THEN "\n" ELSE " "]

Ports == El("Port", <<"3333">>) \o El("TLSPort", <<"3334">>)

Signalling == El("Signalling", Ports)

BindAddr == El("Address", <<"*">>)

BindIp == El("IP", <<"0.0.0.0">>)

\* Bodies of the root bind section: well-formed ones first, then bodies that
\* lack a required field.
BindBodies ==
    { BindAddr \o Ports,
      BindAddr \o BindIp \o Ports,
      BindIp \o BindAddr \o Ports,
      BindIp \o Ports,
      Ports,
      BindAddr \o El("Providers", Signalling),
      BindAddr \o El("Providers", Signalling) \o Signalling,
      BindAddr \o El("Signalling", El("Port", <<"3333">>)),
      BindAddr \o El("Port", <<"3333">>),
      <<Open("Address"), "*">> \o Ports }

\* The root bind section: <Bind>, the legacy spelling <Server.bind>, or none.
RootBinds ==
    {El("Bind", b) : b \in BindBodies}
        \cup {<<"<Server.bind>">> \o b \o <<"</Server.bind>">> :
                b \in {BindAddr \o Ports, BindIp \o Ports}}
        \cup {<<"< Server.bind >">> \o BindAddr \o BindIp \o Ports \o <<"</ Server.bind >">>}
        \cup {<<>>}

\* The root-level <IP>, or none.
RootIps == {<<>>, El("IP", <<"r">>)}

\* The legacy control module: <Modules><Control><Server>...; or none.
Controls ==
    { <<>>,
      El("Modules", El("Control", El("Server", El("Bind", <<"c">>)))),
      El("Modules", El("Control", El("Server", El("Bind", <<"c">>) \o El("IP", <<"d">>)))),
      El("Modules", El("Control", El("Server",
            El("IP", <<"d">>) \o El("Address", <<"e">>) \o El("Port", <<"9">>)))),
      El("Modules", El("Control", El("Name", <<"ctl">>))) }

VirtualHostsSections ==
    { <<>>,
      El("VirtualHosts", El("VirtualHost", El("Name", <<"default">>) \o El("IP", <<"v">>))) }

\* Orders of the sections under the root element.
Orders ==
    { <<"ip", "bind", "ctl", "vh", "man">>,
      <<"bind", "ctl", "ip", "vh", "man">>,
      <<"ctl", "ip", "bind", "vh", "man">>,
      <<"bind", "vh", "ip", "ctl", "man">>,
      <<"man", "vh", "bind", "ip", "ctl">> }

\* The sections in the given order, each non-empty one preceded by pad.
RECURSIVE JoinSections(_, _, _, _)
JoinSections(order, parts, pad, i) ==
    IF i > Len(order)
    THEN <<>>
    ELSE (IF parts[order[i]] = <<>> THEN <<>> ELSE pad \o parts[order[i]])
            \o JoinSections(order, parts, pad, i + 1)

\* n blocks <tag>inner</tag>, each preceded by pad.
RECURSIVE Blocks(_, _, _, _)
Blocks(tag, inner, pad, n) ==
    IF n = 0 THEN <<>> ELSE pad \o El(tag, inner) \o Blocks(tag, inner, pad, n - 1)

\* The credential elements: complete, or with a tag missing.
IdElements ==
    { El("ID", <<"i">>), <<>>, <<Open("ID"), "i">>, <<"i", Close("ID")>> }

PasswordElements ==
    { El("Password", <<"p">>), <<>>, <<Open("Password"), "p">>, <<"p", Close("Password")>> }

\* Pairs of credential elements: at most one of the two is defective, or
\* both are absent.
CredentialPairs ==
    { c \in IdElements \X PasswordElements :
        \/ c[1] = El("ID", <<"i">>)
        \/ c[2] = El("Password", <<"p">>)
        \/ c = <<(<<>>), (<<>>)>> }

\* Bodies of an <AccessTokens> block.
AccessTokensBodies == { El("AccessToken", <<"t">>), <<"none">> }

\* The <Managers> section: credentials, na <AccessTokens> blocks and nb
\* <Authentication> blocks.
Managers(id, pw, atBody, na, nb, pad) ==
    El("Managers",
       pad \o id \o pad \o pw
           \o Blocks("AccessTokens", atBody, pad, na)
           \o Blocks("Authentication", <<"auth">>, pad, nb)
           \o pad)

DefaultManagers(pad) ==
    Managers(El("ID", <<"i">>), El("Password", <<"p">>),
             El("AccessToken", <<"t">>), 1, 1, pad)

Template(order, parts, pad) ==
    <<ServerOpenAttr>> \o pad \o El("Name", <<"OvenMediaEngine">>)
        \o JoinSections(order, parts, pad, 1)
        \o pad \o <<Close("Server"), "\n">>

\* Characters appended to every operator-supplied value.
Specials ==
    { <<>>, <<"<">>, <<">">>, <<"&">>, <<"'">>, <<"\"">>, <<" ">>,
      <<"<", "/", "I", "D", ">">>, <<"&", "l", "t", ";">> }

ImageTags ==
    { None,
      Some(<<"0", ".", "1", "5", ".", "9">>),
      Some(<<"0", ".", "1", "6", ".", "0">>),
      Some(<<"v", "0", ".", "1", "6", ".", "0">>),
      Some(<<"v", "0", ".", "9", ".", "1", "2">>),
      Some(<<"1", ".", "2", ".", "3">>),
      Some(<<"0", ".", "1", "6">>),
      Some(<<"l", "a", "t", "e", "s", "t">>) }

\* Image tags written with the decimal digits of other scripts: 1.0.0,
\* 0.15.0, 0.16.0, v11.2.3 and 0.16.7.
UnicodeImageTags ==
    { Some(<<"۱", ".", "0", ".", "0">>),
      Some(<<"0", ".", "۱", "۵", ".", "0">>),
      Some(<<"0", ".", "۱", "6", ".", "0">>),
      Some(<<"v", "۱", "۱", ".", "2", ".", "3">>),
      Some(<<"0", ".", "1", "6", ".", "৭">>) }

\* A command line: every value ends in the special characters sp.
Args(template, sp, sip, token, omit, tag) ==
    [ template |-> template,
      bind     |-> <<"b">> \o sp,
      server_ip |-> IF sip THEN Some(<<"s">> \o sp) ELSE None,
      username |-> <<"u">> \o sp,
      password |-> <<"w">> \o sp,
      api_token |-> IF token THEN <<"k">> \o sp ELSE <<>>,
      port     |-> <<"1">> \o sp,
      tls_port |-> <<"2">> \o sp,
      omit_managers_auth |-> omit,
      image_tag |-> tag ]

\* Templates that vary the layout of the root element.
LayoutArgs ==
    { Args(Template(order,
                    [ip |-> rip, bind |-> rb, ctl |-> ctl, vh |-> vh,
                     man |-> DefaultManagers(Pad(n))],
                    Pad(n)),
           <<>>, sip, TRUE, FALSE, None) :
        order \in Orders, rb \in RootBinds, rip \in RootIps, ctl \in Controls,
        vh \in VirtualHostsSections, n \in 0..MaxPad, sip \in BOOLEAN }

\* Templates that vary the <Managers> section, with the flags that decide
\* what happens to it.
ManagersArgs ==
    { Args(Template(<<"ip", "bind", "ctl", "vh", "man">>,
                    [ip |-> El("IP", <<"r">>), bind |-> El("Bind", BindAddr \o Ports),
                     ctl |-> <<>>, vh |-> <<>>,
                     man |-> Managers(cred[1], cred[2], atb, na, nb, Pad(n))],
                    Pad(n)),
           <<>>, FALSE, token, omit, tag) :
        cred \in CredentialPairs, atb \in AccessTokensBodies,
        na \in 0..MaxBlocks, nb \in 0..MaxBlocks, n \in 0..MaxPad,
        token \in BOOLEAN, omit \in BOOLEAN, tag \in ImageTags }

\* Command lines that vary the special characters of the values.
EscapeArgs ==
    { Args(Template(<<"ip", "bind", "ctl", "vh", "man">>,
                    [ip |-> El("IP", <<"r">>), bind |-> El("Bind", b),
                     ctl |-> ctl, vh |-> <<>>, man |-> DefaultManagers(<<"\n">>)],
                    <<"\n">>),
           sp, sip, token, FALSE, None) :
        b \in {BindAddr \o Ports, BindIp \o Ports, BindAddr \o Signalling},
        ctl \in Controls, sp \in Specials, sip \in BOOLEAN, token \in BOOLEAN }

\* Whitespace between the elements of <Managers>: CRLF line ends with and
\* without indentation, a lone carriage return, a form feed, a tab indent.
BreakPads ==
    { <<"\r", "\n">>, <<"\r", "\n", " ">>, <<"\r">>, <<"\f">>, <<"\n", "\t">> }

\* Templates that vary the whitespace around the blocks of <Managers>.
WhitespaceArgs ==
    { Args(Template(<<"ip", "bind", "ctl", "vh", "man">>,
                    [ip |-> El("IP", <<"r">>), bind |-> El("Bind", BindAddr \o Ports),
                     ctl |-> <<>>, vh |-> <<>>,
                     man |-> Managers(El("ID", <<"i">>), El("Password", <<"p">>),
                                      atb, na, nb, pad)],
                    pad),
           <<>>, FALSE, token, omit, tag) :
        atb \in AccessTokensBodies, na \in 0..MaxBlocks, nb \in 0..MaxBlocks,
        pad \in BreakPads, token \in BOOLEAN, omit \in BOOLEAN,
        tag \in {None, Some(<<"0", ".", "1", "5", ".", "9">>)} }

\* Bodies of a root bind section that holds a <Bind> of its own under
\* <Providers>, with the section's <IP> after it or before it.
NestedBindBodies ==
    { BindAddr \o Ports \o El("Providers", El("Bind", <<"n">>)) \o BindIp,
      BindAddr \o BindIp \o Ports \o El("Providers", El("Bind", <<"n">>)) }

\* Templates whose root bind section nests a <Bind>.
NestedArgs ==
    { Args(Template(<<"ip", "bind", "ctl", "vh", "man">>,
                    [ip |-> rip, bind |-> El("Bind", b), ctl |-> <<>>, vh |-> vh,
                     man |-> DefaultManagers(<<"\n">>)],
                    <<"\n">>),
           <<>>, sip, TRUE, FALSE, None) :
        b \in NestedBindBodies, rip \in RootIps, vh \in VirtualHostsSections,
        sip \in BOOLEAN }

\* Command lines that vary the script of the digits of the image tag.
VersionArgs ==
    { Args(Template(<<"ip", "bind", "ctl", "vh", "man">>,
                    [ip |-> El("IP", <<"r">>), bind |-> El("Bind", BindAddr \o Ports),
                     ctl |-> <<>>, vh |-> <<>>, man |-> DefaultManagers(<<"\n">>)],
                    <<"\n">>),
           <<>>, FALSE, token, omit, tag) :
        token \in BOOLEAN, omit \in BOOLEAN, tag \in UnicodeImageTags }

-----------------------------------------------------------------------------
(* render_ome_config.py: main() and the steps of render().                 *)

EnvIdle == [phase |-> "idle"]

BlkIdle == [phase |-> "idle"]

InitRender(a) ==
    /\ pc = "main"
    /\ args = a
    /\ text = <<>>
    /\ prev = <<>>
    /\ server_ip = <<>>
    /\ include = FALSE
    /\ api_token = <<>>
    /\ output = None
    /\ err = ""
    /\ env = EnvIdle
    /\ blk = BlkIdle

Init ==
    \E a \in LayoutArgs \cup ManagersArgs \cup EscapeArgs \cup WhitespaceArgs
                \cup VersionArgs \cup NestedArgs :
        InitRender(a)

\* main(): lines 292-296, up to the call of render().
Main ==
    /\ pc = "main"
    /\ LET managers_authentication_supported ==
               _managers_authentication_supported(args.image_tag)
       IN  /\ server_ip' = IF args.server_ip.has THEN args.server_ip.v ELSE args.bind
           /\ include' = (managers_authentication_supported /\ ~args.omit_managers_auth)
           /\ api_token' = IF managers_authentication_supported THEN args.api_token ELSE <<>>
    /\ pc' = "normalize"
    /\ UNCHANGED <<args, text, prev, output, err, env, blk>>

\* The outcome r of a step of render(): go on with its text, or abort.
Step(r, next) ==
    /\ prev' = text
    /\ IF r.ok
       THEN /\ text' = r.text
            /\ pc' = next
            /\ err' = err
       ELSE /\ text' = text
            /\ pc' = "aborted"
            /\ err' = r.err
    /\ UNCHANGED <<args, server_ip, include, api_token, output, env, blk>>

\* render(): template.read_text() and the normalisation of <Server.bind>.
Normalize ==
    /\ pc = "normalize"
    /\ Step(Ok(NormalizeServerBind(read_text(args.template))), "root_bindings")

RootBindings ==
    /\ pc = "root_bindings"
    /\ Step(_replace_root_bindings(text, xml_escape(args.bind),
                                   xml_escape(args.port), xml_escape(args.tls_port)),
            "root_ip")

RootIp ==
    /\ pc = "root_ip"
    /\ Step(_replace_root_ip(text, xml_escape(server_ip)), "control")

ControlBindings ==
    /\ pc = "control"
    /\ Step(Ok(_scoped_replace_control_bindings(text, xml_escape(args.bind))), "id")

ReplaceId ==
    /\ pc = "id"
    /\ Step(replace_tag_content(text, "ID", xml_escape(args.username)), "password")

ReplacePassword ==
    /\ pc = "password"
    /\ Step(replace_tag_content(text, "Password", xml_escape(args.password)), "auth")

\* Mutant: the <Authentication> block is dropped whenever a token is written.
ManagersAuth_drops_authentication(data, incl, token) ==
    IF ~incl
    THEN Ok(remove_first_tag_block(remove_first_tag_block(data, "AccessTokens"),
                                   "Authentication"))
    ELSE IF token # <<>>
         THEN replace_tag_content(remove_first_tag_block(data, "Authentication"),
                                  "AccessToken", xml_escape(token))
         ELSE Ok(remove_first_tag_block(data, "AccessTokens"))

\* render(): lines 229-235.
ManagersAuth(data, incl, token) ==
    IF ~incl
    THEN Ok(remove_first_tag_block(remove_first_tag_block(data, "AccessTokens"),
                                   "Authentication"))
    ELSE IF token # <<>>
         THEN replace_tag_content(data, "AccessToken", xml_escape(token))
         ELSE Ok(remove_first_tag_block(data, "AccessTokens"))

ManagersAuthentication ==
    /\ pc = "auth"
    /\ Step(ManagersAuth(text, include, api_token), "write")

\* render(): output.write_text(text), then main() returns 0.
Write ==
    /\ pc = "write"
    /\ output' = Some(text)
    /\ pc' = "done"
    /\ UNCHANGED <<args, text, prev, server_ip, include, api_token, err, env, blk>>

Next ==
    \/ Main
    \/ Normalize
    \/ RootBindings
    \/ RootIp
    \/ ControlBindings
    \/ ReplaceId
    \/ ReplacePassword
    \/ ManagersAuthentication
    \/ Write

Spec == Init /\ [][Next]_vars

-----------------------------------------------------------------------------
(* Vocabulary of the properties: the structure of a document, told         *)
(* without the searches the code uses.                                     *)

OpeningTokens == {Open(t) : t \in TagNames} \cup {ServerOpenAttr}

ClosingTokens == {Close(t) : t \in TagNames}

\* Number of positions of doc[1..upto] holding a token of set S.
CountIn(doc, S, upto) == Cardinality({i \in 1..upto : doc[i] \in S})

Count(doc, tok) == CountIn(doc, {tok}, Len(doc))

\* Nesting depth of position i: elements open and not yet closed before it.
Depth(doc, i) == CountIn(doc, OpeningTokens, i - 1) - CountIn(doc, ClosingTokens, i - 1)

\* Position i lies inside a <tag> section: more of them opened than closed.
Inside(doc, i, tag) == CountIn(doc, {Open(tag)}, i - 1) > CountIn(doc, {Close(tag)}, i - 1)

\* The least element of a non-empty set of positions; 0 for the empty set.
Least(S) == IF S = {} THEN 0 ELSE CHOOSE i \in S : \A j \in S : i <= j

\* Content of the element opening at position i: up to its closing tag.
ContentAt(doc, i, tag) == Slice(doc, i + 1, Find(doc, Close(tag), i) - 1)

\* The document without the text-only content of the fields render targets:
\* what must survive a rewrite byte for byte.
FieldTags == {"Address", "IP", "Port", "TLSPort", "ID", "Password", "AccessToken", "Bind"}

RECURSIVE Outside(_, _)
Outside(doc, i) ==
    IF i > Len(doc)
    THEN <<>>
    ELSE LET j == IF doc[i] \in {Open(t) : t \in FieldTags} THEN NextLt(doc, i) ELSE 0
         IN  IF j # 0 /\ \E t \in FieldTags : doc[i] = Open(t) /\ doc[j] = Close(t)
             THEN <<doc[i]>> \o Outside(doc, j)
             ELSE <<doc[i]>> \o Outside(doc, i + 1)

\* Characters that must not reach the document unescaped.
RawSpecials == {"<", ">", "&", "'", "\""}

\* Image tags below the support threshold: before 0.16, or not semantic versions.
UnsupportedImageTags ==
    { Some(<<"0", ".", "1", "5", ".", "9">>),
      Some(<<"v", "0", ".", "9", ".", "1", "2">>),
      Some(<<"0", ".", "1", "6">>),
      Some(<<"l", "a", "t", "e", "s", "t">>),
      Some(<<"0", ".", "۱", "۵", ".", "0">>) }

\* The template as read, with every line end a line feed, after the
\* respelling of <Server.bind> and after the removal of the blocks the flags
\* ask for.
ExpectedFrame ==
    LET t == NormalizeServerBind(read_text(args.template))
    IN  IF ~include
        THEN remove_first_tag_block(remove_first_tag_block(t, "AccessTokens"),
                                    "Authentication")
        ELSE IF api_token = <<>>
             THEN remove_first_tag_block(t, "AccessTokens")
             ELSE t

-----------------------------------------------------------------------------
(* Properties of the renderer.                                             *)

\* C1 as stated: the output differs from the template only inside the content
\* of the targeted fields; all else, whitespace included, is byte-identical.
C1_ByteIdenticalOutside ==
    output.has => Outside(output.v, 1) = Outside(args.template, 1)

\* C1 amended: outside the content of the targeted fields the output is the
\* template with every line end read as a line feed, with <Server.bind>
\* respelled <Bind> and with each removed <AccessTokens>/<Authentication>
\* block, together with the whitespace adjoining it, replaced by one newline.
C1_FrameUpToRemoval ==
    output.has => Outside(output.v, 1) = Outside(ExpectedFrame, 1)

C1_Witness ==
    /\ output.has
    /\ ~include
    /\ Contains(args.template, Open("Authentication"))
    /\ Count(output.v, Open("Authentication")) < Count(args.template, Open("Authentication"))
    /\ Contains(output.v, "u")

\* Whether the template lacks the opening or the closing tag of an element.
Lacks(doc, tag) == ~Contains(doc, Open(tag)) \/ ~Contains(doc, Close(tag))

\* C2: a template that lacks <ID> or <Password> (opening or closing tag) never
\* gets past the rewrite of that field and is never written; the output is
\* written only by the last step, which no aborted run reaches.
C2_MissingCredentialsAbort ==
    /\ Lacks(args.template, "ID") => pc \notin {"password", "auth", "write", "done"}
    /\ Lacks(args.template, "Password") => pc \notin {"auth", "write", "done"}
    /\ (Lacks(args.template, "ID") \/ Lacks(args.template, "Password")) => ~output.has
    /\ pc = "aborted" => ~output.has /\ err # ""
    /\ output.has => pc = "done" /\ err = ""

C2_Witness ==
    /\ pc = "aborted"
    /\ ~Lacks(args.template, "ID")
    /\ ~Contains(args.template, Close("Password"))
    /\ err = "missing </Password> in template"
    /\ ~output.has

\* C3 as stated: below the support threshold the output holds no
\* <AccessTokens> block and no <Authentication> block at all.
C3_NoAuthBlocksAtAll ==
    (output.has /\ args.image_tag \in UnsupportedImageTags) =>
        /\ ~Contains(output.v, Open("AccessTokens"))
        /\ ~Contains(output.v, Open("Authentication"))

\* C3 amended: below the support threshold the first <AccessTokens> block and
\* the first <Authentication> block of the template are removed, whatever the
\* token; the output holds none when the template holds at most one of each.
C3_FirstAuthBlocksRemoved ==
    (output.has /\ args.image_tag \in UnsupportedImageTags) =>
        \A tag \in {"AccessTokens", "Authentication"} :
            LET n == Count(args.template, Open(tag))
            IN  /\ Count(output.v, Open(tag)) = IF n = 0 THEN 0 ELSE n - 1
                /\ Count(output.v, Close(tag)) = IF n = 0 THEN 0 ELSE n - 1

C3_Witness ==
    /\ output.has
    /\ args.image_tag = Some(<<"0", ".", "1", "5", ".", "9">>)
    /\ args.api_token # <<>>
    /\ ~args.omit_managers_auth
    /\ Count(args.template, Open("AccessTokens")) = 1
    /\ Count(args.template, Open("Authentication")) = 1
    /\ ~Contains(output.v, Open("AccessTokens"))
    /\ ~Contains(output.v, Open("Authentication"))

\* The first <tag> element of doc with its tags; <<>> when there is none.
FirstBlock(doc, tag) ==
    LET m == LazyMatch(doc, tag)
    IN  IF m.s = 0 THEN <<>> ELSE Slice(doc, m.s, m.e)

\* What C4 promises of the output.
TokenWrittenAuthKept ==
    /\ FirstBlock(output.v, "AccessToken") = El("AccessToken", xml_escape(args.api_token))
    /\ Count(output.v, Open("Authentication")) = Count(args.template, Open("Authentication"))
    /\ FirstBlock(output.v, "Authentication") = FirstBlock(args.template, "Authentication")

\* C4 as stated: with a supported image tag and a non-empty token the
\* <AccessToken> content is the escaped token and <Authentication> is kept.
C4_TokenWritten ==
    (/\ output.has
     /\ args.image_tag \notin UnsupportedImageTags
     /\ args.api_token # <<>>) => TokenWrittenAuthKept

\* C4 amended: the same, provided --omit-managers-auth is not given.
C4_TokenWrittenUnlessOmitted ==
    (/\ output.has
     /\ args.image_tag \notin UnsupportedImageTags
     /\ args.api_token # <<>>
     /\ ~args.omit_managers_auth) => TokenWrittenAuthKept

C4_Witness ==
    /\ output.has
    /\ args.image_tag = Some(<<"v", "0", ".", "1", "6", ".", "0">>)
    /\ args.api_token = <<"k">>
    /\ ~args.omit_managers_auth
    /\ Contains(args.template, Open("Authentication"))
    /\ FirstBlock(output.v, "AccessToken") = El("AccessToken", <<"k">>)

\* The root server body: between the root opening tag and the last </Server>.
RootBodyPositions(doc) ==
    LET s == Least({i \in 1..Len(doc) : IsServerOpen(doc[i])})
        e == RFind(doc, Close("Server"), Len(doc))
    IN  IF s = 0 THEN {} ELSE (s + 1)..(e - 1)

\* The first <IP> element of the root server body that lies neither inside a
\* <Bind> section nor inside a <VirtualHosts> section; 0 when there is none.
FirstRootIp(doc) ==
    Least({i \in RootBodyPositions(doc) :
             /\ doc[i] = Open("IP")
             /\ Find(doc, Close("IP"), i) # 0
             /\ ~Inside(doc, i, "Bind")
             /\ ~Inside(doc, i, "VirtualHosts")})

\* C5 as stated: _replace_root_ip changes the content of the first <IP>
\* element of the root server body that lies outside <Bind> and outside
\* <VirtualHosts>, and nothing else: no <IP> inside those sections changes,
\* and the document is returned unchanged when there is no such element.
\* "Inside" is told by nesting: more sections opened than closed before it.
C5_RootIpOnlyOutsideSections ==
    pc = "control" =>
        LET f == FirstRootIp(prev)
        IN  IF f = 0
            THEN text = prev
            ELSE text = Slice(prev, 1, f) \o xml_escape(server_ip)
                            \o From(prev, Find(prev, Close("IP"), f))

BindOpeners == {Open("Bind"), "<Server.bind>", "< Server.bind >"}

BindClosers == {Close("Bind"), "</Server.bind>", "</ Server.bind >"}

\* Body of the bind section that is a child of the root element; <<>> if none.
RootBindBody(doc) ==
    LET s == Least({i \in 1..Len(doc) : doc[i] \in BindOpeners /\ Depth(doc, i) = 1})
        e == Least({j \in 1..Len(doc) : j > s /\ doc[j] \in BindClosers})
    IN  IF s = 0 \/ e = 0 THEN <<>> ELSE Slice(doc, s + 1, e - 1)

\* C6: when the root bind section holds both <Address> and <IP>, the output has
\* the bind address in <Address> and the <IP> of that section as it was; when
\* it holds only <IP>, that element has the bind address.
C6_AddressPreferred ==
    output.has =>
        LET tbody == RootBindBody(args.template)
            obody == RootBindBody(output.v)
        IN  /\ (Contains(tbody, Open("Address")) /\ Contains(tbody, Open("IP"))) =>
                  /\ FirstBlock(obody, "Address") = El("Address", xml_escape(args.bind))
                  /\ FirstBlock(obody, "IP") = FirstBlock(tbody, "IP")
            /\ (~Contains(tbody, Open("Address")) /\ Contains(tbody, Open("IP"))) =>
                  FirstBlock(obody, "IP") = El("IP", xml_escape(args.bind))

\* Both tags, <IP> first, in a template that also has a root-level <IP> and a
\* control module with an <IP>: all three rewrites acted.
C6_Witness ==
    /\ output.has
    /\ LET tbody == RootBindBody(args.template)
       IN  /\ Contains(tbody, Open("Address"))
           /\ Contains(tbody, Open("IP"))
           /\ Find(tbody, Open("IP"), 1) < Find(tbody, Open("Address"), 1)
    /\ FirstBlock(RootBindBody(output.v), "IP") = El("IP", <<"0.0.0.0">>)
    /\ Contains(output.v, "s")
    /\ \E i \in 1..Len(args.template) :
          args.template[i] = Open("IP") /\ Inside(args.template, i, "Control")

\* C8: no operator-supplied value contributes a raw '<', '>', '&', quote or
\* apostrophe to the document, at any step, and no substitution adds a tag:
\* the output has the template's tags or fewer.
C8_ValuesEscaped ==
    /\ \A i \in 1..Len(text) : text[i] \notin RawSpecials
    /\ output.has =>
          /\ \A i \in 1..Len(output.v) : output.v[i] \notin RawSpecials
          /\ \A tok \in TagTokens : Count(output.v, tok) <= Count(NormalizeServerBind(args.template), tok)

\* A run whose seven values all end in '<', '/', 'I', 'D', '>' was written.
C8_Witness ==
    /\ output.has
    /\ args.api_token = <<"k", "<", "/", "I", "D", ">">>
    /\ args.server_ip.has
    /\ FirstBlock(output.v, "ID") = <<Open("ID"), "u", "&lt;", "/", "I", "D", "&gt;", Close("ID")>>
    /\ Contains(output.v, Open("Control"))

\* The first <Control> block of the document, and the document without it.
ControlBlock(doc) == FirstBlock(doc, "Control")

WithoutControl(doc) ==
    LET m == LazyMatch(doc, "Control")
    IN  IF m.s = 0 THEN doc ELSE Slice(doc, 1, m.s - 1) \o From(doc, m.e + 1)

\* Every <Bind>, <IP> and <Address> field of the block holds value.
FieldsHold(block, value) ==
    \A i \in 1..Len(block) : \A t \in {"Bind", "IP", "Address"} :
        block[i] = Open(t) => ContentAt(block, i, t) = value

\* The root-level <IP>: the first one that is a child of the root element.
RootLevelIp(doc) == Least({i \in 1..Len(doc) : doc[i] = Open("IP") /\ Depth(doc, i) = 1})

\* C10 as stated: the root bind and root-IP rewrites rewrite the root server's
\* own fields and leave the control block alone, the control rewrite changes
\* only fields inside the control block and sets them to the bind address,
\* wherever the block sits; without a control block the step changes nothing.
C10_ControlIndependent ==
    /\ (pc = "aborted" /\ err = "missing <Port> in template") =>
          ~Contains(RootBindBody(args.template), Open("Port"))
    /\ pc \in {"root_ip", "control"} => ControlBlock(text) = ControlBlock(prev)
    /\ (pc = "control" /\ RootLevelIp(prev) # 0) =>
          ContentAt(text, RootLevelIp(text), "IP") = xml_escape(server_ip)
    /\ pc = "id" =>
          /\ WithoutControl(text) = WithoutControl(prev)
          /\ Contains(ControlBlock(prev), Open("Server")) =>
                FieldsHold(ControlBlock(text), xml_escape(args.bind))
          /\ ~Contains(prev, Open("Control")) => text = prev

-----------------------------------------------------------------------------
(* test-quickstart-env.py: _extract_block, diff_values and main.           *)
(* A line is a sequence of tokens: whitespace characters and words.  A     *)
(* dict is a function whose domain is the set of its keys.                 *)

\* line.strip(): without its leading and trailing whitespace.
RECURSIVE lstrip(_)
lstrip(line) ==
    IF line # <<>> /\ IsSpace(Head(line)) THEN lstrip(Tail(line)) ELSE line

RECURSIVE rstrip(_)
rstrip(line) ==
    IF line # <<>> /\ IsSpace(line[Len(line)])
    THEN rstrip(Slice(line, 1, Len(line) - 1))
    ELSE line

strip(line) == lstrip(rstrip(line))

\* line.rstrip("\n"): without its trailing line breaks.
RECURSIVE rstrip_newline(_)
rstrip_newline(line) ==
    IF line # <<>> /\ line[Len(line)] = "\n"
    THEN rstrip_newline(Slice(line, 1, Len(line) - 1))
    ELSE line

\* The loop of _extract_block from line i on, with its flag collecting.
RECURSIVE extract_loop(_, _, _, _, _)
extract_loop(lines, start_marker, end_marker, i, collecting) ==
    IF i > Len(lines)
    THEN <<>>
    ELSE IF collecting
         THEN IF strip(lines[i]) = end_marker
              THEN <<>>
              ELSE <<rstrip_newline(lines[i])>>
                      \o extract_loop(lines, start_marker, end_marker, i + 1, TRUE)
         ELSE extract_loop(lines, start_marker, end_marker, i + 1,
                           strip(lines[i]) = start_marker)

\* The text of a line: its tokens joined.
RECURSIVE JoinTokens(_)
JoinTokens(line) ==
    IF line = <<>> THEN "" ELSE Head(line) \o JoinTokens(Tail(line))

\* _extract_block: the block, or ValueError with its message, which quotes
\* the start marker.
_extract_block(lines, start_marker, end_marker) ==
    LET block == extract_loop(lines, start_marker, end_marker, 1, FALSE)
    IN  IF block = <<>>
        THEN Fail("Unable to find block starting with '"
                      \o JoinTokens(start_marker) \o "'")
        ELSE Ok(block)

\* dict.get(key): None when the key is missing.
Get(dict, key) == IF key \in DOMAIN dict THEN Some(dict[key]) ELSE None

\* The loop of diff_values from key i on.
RECURSIVE diff_loop(_, _, _, _)
diff_loop(defaults, seed_env, keys, i) ==
    IF i > Len(keys)
    THEN <<>>
    ELSE LET key == keys[i]
             default_val == Get(defaults, key)
             seed_val == Get(seed_env, key)
             rest == diff_loop(defaults, seed_env, keys, i + 1)
         IN  IF ~default_val.has
             THEN <<<<key, "<missing in env_defaults>",
                      IF seed_val.has THEN seed_val.v ELSE "">>>> \o rest
             ELSE IF ~seed_val.has
                  THEN <<<<key, default_val.v, "<missing in test-quickstart .env>">>>> \o rest
                  ELSE IF default_val.v # seed_val.v
                       THEN <<<<key, default_val.v, seed_val.v>>>> \o rest
                       ELSE rest

\* Mutant: the loop stops at the first mismatch.
diff_values_first_only(defaults, seed_env, keys) ==
    LET all == diff_loop(defaults, seed_env, keys, 1)
    IN  IF all = <<>> THEN <<>> ELSE <<all[1]>>

diff_values(defaults, seed_env, keys) == diff_loop(defaults, seed_env, keys, 1)

StartMarker == <<"required_env_keys=(">>

EndMarker == <<")">>

\* Lines of a script: markers with and without indentation (spaces, a tab, a
\* no-break space, a carriage return, a form feed), entries, blanks.
Lines ==
    { <<>>, StartMarker, <<" ">> \o StartMarker \o <<"\n">>, EndMarker,
      <<" ">> \o EndMarker, <<"KEY">>, <<" ", "KEY", " ", "\n">>,
      StartMarker \o <<" ", "KEY">>, <<"\n">>,
      <<" ">> \o StartMarker \o <<"\r">>, <<"\t">> \o EndMarker \o <<"\f">> }

\* Sequences over S of length at most n.
RECURSIVE SeqsUpTo(_, _)
SeqsUpTo(S, n) ==
    IF n = 0
    THEN {<<>>}
    ELSE LET shorter == SeqsUpTo(S, n - 1)
         IN  shorter \cup {Append(q, x) : q \in {r \in shorter : Len(r) = n - 1}, x \in S}

EnvKeys == {"API_PORT", "DB_NAME"}

EnvValues == {"", "8080", "bitriver"}

\* Dicts from some of the keys to values.
EnvDicts == UNION {[K -> EnvValues] : K \in SUBSET EnvKeys}

InitIdleRender ==
    /\ pc = "idle"
    /\ args = [template |-> <<>>]
    /\ text = <<>>
    /\ prev = <<>>
    /\ server_ip = <<>>
    /\ include = FALSE
    /\ api_token = <<>>
    /\ output = None
    /\ err = ""

InitExtract ==
    /\ InitIdleRender
    /\ env = EnvIdle
    /\ \E lines \in SeqsUpTo(Lines, MaxLines) :
          blk = [phase |-> "ready", lines |-> lines]

\* A call _extract_block(lines, start_marker, end_marker).
ExtractBlock ==
    /\ blk.phase = "ready"
    /\ LET r == _extract_block(blk.lines, StartMarker, EndMarker)
       IN  blk' = [phase |-> "done", lines |-> blk.lines,
                   raised |-> ~r.ok, message |-> r.err, block |-> r.text]
    /\ UNCHANGED <<renderVars, env>>

SpecExtract == InitExtract /\ [][ExtractBlock]_vars

InitDiff ==
    /\ InitIdleRender
    /\ blk = BlkIdle
    /\ \E defaults \in EnvDicts, seed_env \in EnvDicts,
          keys \in SeqsUpTo(EnvKeys, MaxKeys) :
          env = [phase |-> "ready", defaults |-> defaults,
                 seed_env |-> seed_env, keys |-> keys]

\* main() from the parsed mappings on: diff_values and the exit status.
DiffValues ==
    /\ env.phase = "ready"
    /\ LET mismatches == diff_values(env.defaults, env.seed_env, env.keys)
       IN  env' = [phase |-> "done", defaults |-> env.defaults,
                   seed_env |-> env.seed_env, keys |-> env.keys,
                   mismatches |-> mismatches,
                   exit |-> IF mismatches # <<>> THEN 1 ELSE 0]
    /\ UNCHANGED <<renderVars, blk>>

SpecDiff == InitDiff /\ [][DiffValues]_vars

-----------------------------------------------------------------------------
(* Properties of the env-defaults check.                                   *)

\* A required key is consistent: present in both mappings with one value.
Consistent(defaults, seed_env, key) ==
    /\ key \in DOMAIN defaults
    /\ key \in DOMAIN seed_env
    /\ defaults[key] = seed_env[key]

\* C7: diff_values reports a required key if and only if it is missing from
\* either mapping or differs between them, once for each time it is required
\* and in the order of the required keys; it returns nothing when every
\* required key is consistent, and main exits non-zero exactly on a mismatch.
C7_DiffReportsEveryMismatch ==
    env.phase = "done" =>
        LET bad == {i \in 1..Len(env.keys) :
                      ~Consistent(env.defaults, env.seed_env, env.keys[i])}
            reported == [i \in 1..Len(env.mismatches) |-> env.mismatches[i][1]]
        IN  /\ \A k \in EnvKeys :
                  (\E i \in 1..Len(reported) : reported[i] = k)
                      <=> (\E i \in bad : env.keys[i] = k)
            /\ Len(env.mismatches) = Cardinality(bad)
            /\ reported = SelectSeq(env.keys,
                              LAMBDA k : ~Consistent(env.defaults, env.seed_env, k))
            /\ (env.mismatches = <<>>) <=> (bad = {})
            /\ (env.exit = 0) <=> (bad = {})

\* Two required keys are reported: one missing from the seed, one differing.
C7_Witness ==
    /\ env.phase = "done"
    /\ Len(env.mismatches) >= 2
    /\ \E i \in 1..Len(env.mismatches) :
          env.mismatches[i][3] = "<missing in test-quickstart .env>"
    /\ \E i \in 1..Len(env.mismatches) :
          /\ env.mismatches[i][1] \in DOMAIN env.defaults \cap DOMAIN env.seed_env
          /\ env.mismatches[i][2] # env.mismatches[i][3]
    /\ env.exit = 1

\* The first line equal, after stripping, to the start marker; 0 if none.
FirstStart(lines) == Least({i \in 1..Len(lines) : strip(lines[i]) = StartMarker})

\* The first line after position s equal, after stripping, to the end marker;
\* one past the last line if none.
EndAfter(lines, s) ==
    LET e == Least({i \in 1..Len(lines) : i > s /\ strip(lines[i]) = EndMarker})
    IN  IF e = 0 THEN Len(lines) + 1 ELSE e

\* C9 as stated: _extract_block fails exactly when the start marker never
\* occurs, and otherwise returns the lines after the first start marker up to
\* but not including the next end marker.
C9_ExtractFailsOnlyWithoutStart ==
    blk.phase = "done" =>
        LET s == FirstStart(blk.lines)
        IN  /\ blk.raised <=> (s = 0)
            /\ ~blk.raised =>
                  blk.block = [i \in 1..(EndAfter(blk.lines, s) - s - 1) |->
                                  rstrip_newline(blk.lines[s + i])]

====
